---- MODULE Spec2Model ----
(***************************************************************************)
(* Model of src/src/odd.rs: the OddEven parity predicate, the              *)
(* OddOrEvenNumbers generator and the OddEvenIterator filtering adapter.   *)
(*                                                                         *)
(* The element type N is a fixed-width integer of Width bits, signed or    *)
(* unsigned.  Rust's `+=` on such a type panics on overflow when the build *)
(* has overflow checks (debug profile) and wraps otherwise (release        *)
(* profile); both builds are modelled, chosen once in Init.                *)
(***************************************************************************)
EXTENDS Integers, Sequences, FiniteSets, TLC

\* ---- bounds of the model ------------------------------------------------
Width == 4        \* bits of the element type N
MaxCalls == 6     \* next() calls made on one generator / adapter
MaxLen == 4       \* length of a source's script of poll results
MaxElem == 5      \* source elements are drawn from -NegElems .. MaxElem
NegElems == 1

VARIABLES
    signed,           \* N is a signed type
    overflow_checks,  \* the build panics on arithmetic overflow
    \* OddOrEvenNumbers<N>
    current, end, odd,
    start,            \* ghost: `current` at construction
    ret,              \* ghost: what the last next() call did
    out,              \* ghost: the values yielded so far, in order
    calls,            \* ghost: number of next() calls made
    overflowed,       \* ghost: some `+=` exceeded the type's maximum
    probes,           \* ghost: candidates examined by the last next() call
    \* OddEvenIterator<I>
    iter,             \* Fuse<I>: the source and the fuse's flag
    it_odd,           \* OddEvenIterator.odd
    it_ret,           \* ghost: what the last next() call returned
    collected,        \* ghost: what collect() has gathered
    collect_done,     \* ghost: collect() has seen None and returned
    it_calls,         \* ghost: number of next() calls made
    \* OddEven
    v, res_is_odd, res_is_even

gen_vars == <<current, end, odd, start, ret, out, calls, overflowed, probes>>
it_vars == <<iter, it_odd, it_ret, collected, collect_done, it_calls>>
par_vars == <<v, res_is_odd, res_is_even>>
vars == <<signed, overflow_checks, gen_vars, it_vars, par_vars>>

\* ---- Option<T> ----------------------------------------------------------
None == <<>>
Some(x) == <<x>>
unwrap_or(o, d) == IF o = None THEN d ELSE o[1]

\* ---- the element type ---------------------------------------------------
Pow2(n) == 2 ^ n
min_value(s) == IF s THEN -Pow2(Width - 1) ELSE 0
max_value(s) == IF s THEN Pow2(Width - 1) - 1 ELSE Pow2(Width) - 1
Values(s) == min_value(s) .. max_value(s)

\* Rust's `%` on integers truncates toward zero: the result has the sign of
\* the dividend (-3 % 2 = -1).  b > 0 here.
rem(a, b) == IF a >= 0 THEN a % b ELSE -((-a) % b)
is_zero(x) == x = 0

\* a two's-complement wrap of x into the type
wrapping(s, x) == ((x - min_value(s)) % Pow2(Width)) + min_value(s)

\* `a += b`: the new value, and whether the build panicked instead
add_assign(s, chk, a, b) ==
    LET r == a + b IN
    IF r \in Values(s) THEN [panic |-> FALSE, overflow |-> FALSE, val |-> r]
    ELSE IF chk THEN [panic |-> TRUE, overflow |-> TRUE, val |-> a]
    ELSE [panic |-> FALSE, overflow |-> TRUE, val |-> wrapping(s, r)]

\* ---- trait OddEven ------------------------------------------------------
\* variant of is_odd: the remainder compared with 1 instead of tested for zero
is_odd_eq1(x) == rem(x, 2) = 1
is_odd(x) == ~is_zero(rem(x, 2))
is_even(x) == ~is_odd(x)

\* ---- OddOrEvenNumbers::next ---------------------------------------------
partial_cmp(a, b) == IF a < b THEN "Less" ELSE IF a = b THEN "Equal" ELSE "Greater"
\* variant of is_le: an exclusive comparison
is_lt(ord) == ord = "Less"
is_le(ord) == ord \in {"Less", "Equal"}

\* variant of exhausted: the probe is advanced (wrapping) before None
exhausted_advancing(s, cur) ==
    [kind |-> "none", val |-> 0, current |-> wrapping(s, cur + 1),
     overflow |-> FALSE, probes |-> 0]
\* the `None` of line 48: nothing is yielded, the state is left alone
exhausted(s, cur) ==
    [kind |-> "none", val |-> 0, current |-> cur, overflow |-> FALSE, probes |-> 0]

\* the body of `while ord.is_le()`: ord was computed before the loop and is
\* not computed again, so the loop is left only by `return` (or by a panic).
\* n counts the candidates examined so far, ov whether a `+=` overflowed.
RECURSIVE while_loop(_, _, _, _, _, _)
while_loop(s, chk, cur, flag, n, ov) ==
    LET val == cur IN
    IF is_odd(val) = flag
    THEN LET a == add_assign(s, chk, cur, 2) IN
         IF a.panic
         THEN [kind |-> "panic", val |-> 0, current |-> cur,
               overflow |-> TRUE, probes |-> n + 1]
         ELSE [kind |-> "some", val |-> val, current |-> a.val,
               overflow |-> (ov \/ a.overflow), probes |-> n + 1]
    ELSE LET a == add_assign(s, chk, cur, 1) IN
         IF a.panic
         THEN [kind |-> "panic", val |-> 0, current |-> cur,
               overflow |-> TRUE, probes |-> n + 1]
         ELSE while_loop(s, chk, a.val, flag, n + 1, ov \/ a.overflow)

next(s, chk, cur, e, flag) ==
    LET end_ == unwrap_or(e, max_value(s))
        ord == partial_cmp(cur, end_)
    IN  IF is_le(ord)
        THEN while_loop(s, chk, cur, flag, 0, FALSE)
        ELSE exhausted(s, cur)

\* ---- initial states -----------------------------------------------------
ItIdle ==
    /\ iter = [script |-> <<>>, polls |-> 0, done |-> FALSE]
    /\ it_odd = FALSE
    /\ it_ret = [kind |-> "init", val |-> 0]
    /\ collected = <<>>
    /\ collect_done = FALSE
    /\ it_calls = 0

ParIdle ==
    /\ v = 0
    /\ res_is_odd = None
    /\ res_is_even = None

GenIdle ==
    /\ current = 0
    /\ end = None
    /\ odd = FALSE
    /\ start = 0
    /\ ret = [kind |-> "init", val |-> 0]
    /\ out = <<>>
    /\ calls = 0
    /\ overflowed = FALSE
    /\ probes = 0

\* a generator is a struct literal: any current, any end, either flag
Init ==
    /\ signed \in BOOLEAN
    /\ overflow_checks \in BOOLEAN
    /\ current \in Values(signed)
    /\ end \in {None} \cup {Some(x) : x \in Values(signed)}
    /\ odd \in BOOLEAN
    /\ start = current
    /\ ret = [kind |-> "init", val |-> 0]
    /\ out = <<>>
    /\ calls = 0
    /\ overflowed = FALSE
    /\ probes = 0
    /\ ItIdle
    /\ ParIdle

\* one call of OddOrEvenNumbers::next; a panic ends the program
Next ==
    /\ ret.kind # "panic"
    /\ calls < MaxCalls
    /\ LET r == next(signed, overflow_checks, current, end, odd) IN
        /\ current' = r.current
        /\ ret' = [kind |-> r.kind, val |-> r.val]
        /\ out' = IF r.kind = "some" THEN Append(out, r.val) ELSE out
        /\ overflowed' = (overflowed \/ r.overflow)
        /\ probes' = r.probes
    /\ calls' = calls + 1
    /\ UNCHANGED <<signed, overflow_checks, end, odd, start, it_vars, par_vars>>

Spec == Init /\ [][Next]_vars

\* ---- OddEvenIterator ----------------------------------------------------
\* The wrapped source I is a script of poll results: the i-th call of its
\* next() returns script[i], and None once the script is over.  A script
\* holding None before a value is a source that yields again after having
\* returned None.
Elems == (-NegElems) .. MaxElem
RECURSIVE SeqsUpTo(_, _)
SeqsUpTo(S, n) ==
    IF n = 0 THEN {<<>>}
    ELSE LET shorter == SeqsUpTo(S, n - 1) IN
         shorter \cup {Append(q, x) : q \in {t \in shorter : Len(t) = n - 1}, x \in S}
Scripts == SeqsUpTo({None} \cup {Some(x) : x \in Elems}, MaxLen)
source_item(script, i) == IF i <= Len(script) THEN script[i] ELSE None

\* IteratorExt::odd and IteratorExt::even: the flag handed to new()
IteratorExt_odd == TRUE
\* variant of IteratorExt_even: the flag of odd() handed to new()
IteratorExt_even_as_odd == TRUE
IteratorExt_even == FALSE

\* OddEvenIterator::new: the source is wrapped in a Fuse, nothing is polled
new(script, flag) ==
    [iter |-> [script |-> script, polls |-> 0, done |-> FALSE], odd |-> flag]

\* variant of fuse_next: the source is polled whatever it returned before
unfused_next(it) ==
    LET item == source_item(it.script, it.polls + 1) IN
    [item |-> item,
     iter |-> [it EXCEPT !.polls = @ + 1, !.done = (@ \/ item = None)]]
\* Fuse<I>::next: once the source has returned None the fuse answers None
\* itself and polls no more (a source that is not a FusedIterator)
fuse_next(it) ==
    IF it.done
    THEN [item |-> None, iter |-> it]
    ELSE LET item == source_item(it.script, it.polls + 1) IN
         [item |-> item,
          iter |-> [it EXCEPT !.polls = @ + 1, !.done = (item = None)]]

\* the inline parity test of OddEvenIterator::next, lines 76-81: the local
\* named `odd` is set when the remainder is zero
inline_odd(item) ==
    LET one == 1
        two == one + one
    IN  is_zero(rem(item, two))

\* `for item in &mut self.iter { ... } None`
RECURSIVE for_loop(_, _)
for_loop(it, flag) ==
    LET r == fuse_next(it) IN
    IF r.item = None
    THEN [kind |-> "none", val |-> 0, iter |-> r.iter]
    ELSE LET item == r.item[1] IN
         IF inline_odd(item) = flag
         THEN [kind |-> "some", val |-> item, iter |-> r.iter]
         ELSE for_loop(r.iter, flag)

\* Iterator::collect over an adapter: next() is called until the first None
RECURSIVE collect(_, _)
collect(it, flag) ==
    LET r == for_loop(it, flag) IN
    IF r.kind = "none" THEN <<>> ELSE <<r.val>> \o collect(r.iter, flag)

InitAdapter ==
    /\ signed = TRUE
    /\ overflow_checks = FALSE
    /\ GenIdle
    /\ ParIdle
    /\ \E script \in Scripts, flag \in {IteratorExt_odd, IteratorExt_even} :
        LET a == new(script, flag) IN
        /\ iter = a.iter
        /\ it_odd = a.odd
    /\ it_ret = [kind |-> "init", val |-> 0]
    /\ collected = <<>>
    /\ collect_done = FALSE
    /\ it_calls = 0

\* one call of OddEvenIterator::next.  collect() calls next() until the
\* first None and keeps what came before it.
NextAdapter ==
    /\ it_calls < MaxCalls
    /\ LET r == for_loop(iter, it_odd) IN
        /\ iter' = r.iter
        /\ it_ret' = [kind |-> r.kind, val |-> r.val]
        /\ collected' = IF ~collect_done /\ r.kind = "some"
                        THEN Append(collected, r.val) ELSE collected
        /\ collect_done' = (collect_done \/ r.kind = "none")
    /\ it_calls' = it_calls + 1
    /\ UNCHANGED <<signed, overflow_checks, it_odd, gen_vars, par_vars>>

SpecAdapter == InitAdapter /\ [][NextAdapter]_vars

\* ---- OddEven on single values --------------------------------------------
InitParity ==
    /\ signed \in BOOLEAN
    /\ overflow_checks = FALSE
    /\ GenIdle
    /\ ItIdle
    /\ v \in Values(signed)
    /\ res_is_odd = None
    /\ res_is_even = None

call_is_odd ==
    /\ res_is_odd = None
    /\ res_is_odd' = Some(is_odd(v))
    /\ UNCHANGED <<signed, overflow_checks, gen_vars, it_vars, v, res_is_even>>

call_is_even ==
    /\ res_is_even = None
    /\ res_is_even' = Some(is_even(v))
    /\ UNCHANGED <<signed, overflow_checks, gen_vars, it_vars, v, res_is_odd>>

NextParity == call_is_odd \/ call_is_even

SpecParity == InitParity /\ [][NextParity]_vars

\* ---- claims about OddOrEvenNumbers --------------------------------------
\* x has the parity a flag asks for (odd when the flag is set), by the
\* mathematical remainder
MathOdd(x) == x % 2 = 1
HasParity(x, flag) == MathOdd(x) = flag
Bound == unwrap_or(end, max_value(signed))
\* the smallest value >= s of the requested parity
First(s, flag) == IF HasParity(s, flag) THEN s ELSE s + 1

\* C3: every value a next() call returns as Some(v) is at most the effective
\* inclusive bound (end if set, otherwise the type's maximum).
C3_YieldWithinBound == ret.kind = "some" => ret.val <= Bound

\* C4: a generator built with start = end whose start has not the requested
\* parity returns None on its first call and never yields a value.
C4_MismatchedSingleton ==
    (end = Some(start) /\ ~HasParity(start, odd) /\ calls >= 1)
        => (ret.kind = "none" /\ out = <<>>)

\* C5: a generator built with start = end <= max - 2 whose start has the
\* requested parity yields start on the first call, and None on the second
\* and every later call.
C5_Case ==
    /\ end = Some(start)
    /\ start <= max_value(signed) - 2
    /\ HasParity(start, odd)
C5_MatchingSingleton ==
    C5_Case =>
        /\ calls = 1 => ret = [kind |-> "some", val |-> start]
        /\ calls >= 1 => out = <<start>>
        /\ calls >= 2 => ret.kind = "none"
C5_Witness == C5_Case /\ calls >= 3 /\ ret.kind = "none" /\ out = <<start>>

\* C6: with no end, the n-th next() call returns Some(f + 2*(n-1)), f the
\* smallest value >= start of the requested parity, for every n for which
\* that value is within the type's range.
C6_NthValue ==
    LET nth == First(start, odd) + 2 * (calls - 1) IN
    (end = None /\ calls >= 1 /\ nth <= max_value(signed))
        => (ret = [kind |-> "some", val |-> nth] /\ out[calls] = nth)

\* C7: once a next() call has returned None, every later next() call returns
\* None as well, yields nothing and leaves the generator as it was.
C7_StickyExhaustion ==
    [][ret.kind = "none" =>
        (ret'.kind = "none" /\ out' = out /\ current' = current)]_vars
C7_Witness ==
    /\ ret.kind = "none"
    /\ Len(out) >= 1
    /\ calls - Len(out) >= 2

\* C10: with end set at or below the type's maximum minus 2, no next() call
\* ever advances current past the type's maximum.
C10_NoOverflowBelowMax ==
    (end # None /\ unwrap_or(end, 0) <= max_value(signed) - 2) => ~overflowed

\* C11: with end unset and a maximum of the requested parity, the generator
\* yields the maximum without any addition exceeding the type's maximum, and
\* nothing is yielded after the maximum.
C11_MaxYieldedSafely ==
    (end = None /\ HasParity(max_value(signed), odd)) =>
        /\ ~overflowed
        /\ ret.kind # "panic"
        /\ \A i \in 1 .. Len(out) : out[i] = max_value(signed) => i = Len(out)

\* C12: with start <= end <= max - 2, the calls up to the first None yield
\* every value of the requested parity in start..end exactly once, in
\* strictly ascending order.
C12_Case ==
    /\ end # None
    /\ start <= unwrap_or(end, 0)
    /\ unwrap_or(end, 0) <= max_value(signed) - 2
Ascending(q) == \A i \in 1 .. Len(q) - 1 : q[i] < q[i + 1]
C12_RangeEnumerated ==
    C12_Case =>
        /\ ret.kind # "panic"
        /\ Ascending(out)
        /\ ret.kind = "none" =>
            \A x \in start .. unwrap_or(end, 0) :
                HasParity(x, odd) =>
                    Cardinality({i \in 1 .. Len(out) : out[i] = x}) = 1

\* C13: a call returning Some(v) leaves current = v + 2, a probe of the wrong
\* parity advances current by exactly 1 without returning, and consecutive
\* yielded values differ by exactly 2.
C13_StepInvariant ==
    /\ ret.kind = "some" => current = ret.val + 2
    /\ (calls = 1 /\ ret.kind = "some" /\ ~HasParity(start, odd))
        => ret.val = start + 1
    /\ \A i \in 1 .. Len(out) - 1 : out[i + 1] = out[i] + 2

\* C16: with end set at or below max - 2, next() returns None within
\* (end - start) / 2 + 2 calls when start <= end, and on the first call when
\* start > end.
C16_ExhaustsWithinBound ==
    (end # None /\ unwrap_or(end, 0) <= max_value(signed) - 2) =>
        /\ (start <= unwrap_or(end, 0)
            /\ calls >= (unwrap_or(end, 0) - start) \div 2 + 2)
                => ret.kind = "none"
        /\ (start > unwrap_or(end, 0) /\ calls >= 1) => ret.kind = "none"

\* C18: a next() call made with current + 3 within the type's range returns
\* after examining at most two candidates.
C18_AtMostTwoProbes ==
    [][current + 3 <= max_value(signed) =>
        (probes' <= 2 /\ ret'.kind \in {"some", "none"})]_vars
C18_Witness ==
    /\ calls = 1
    /\ start + 3 <= max_value(signed)
    /\ start < 0
    /\ probes = 2
    /\ ret = [kind |-> "some", val |-> start + 1]

\* ---- claims about OddEvenIterator ---------------------------------------
WellFormed(script) == \A i \in 1 .. Len(script) : script[i] # None
Items(script) == [i \in 1 .. Len(script) |-> script[i][1]]
MathEven(x) == x % 2 = 0
\* the source has returned None to the adapter
SourceExhausted == \E i \in 1 .. iter.polls : source_item(iter.script, i) = None

\* C1: collecting odd() over a finite source yields exactly the source's odd
\* elements, in source order.
C1_OddCollect ==
    (WellFormed(iter.script) /\ it_odd = IteratorExt_odd /\ collect_done)
        => collected = SelectSeq(Items(iter.script), MathOdd)

\* C2: collecting even() over a finite source yields exactly the source's
\* even elements, in source order.
C2_EvenCollect ==
    (WellFormed(iter.script) /\ it_odd = IteratorExt_even /\ collect_done)
        => collected = SelectSeq(Items(iter.script), MathEven)

\* C8: once the source has returned None to the adapter, the adapter never
\* polls the source again and every later next() call returns None, also
\* when the source would yield values again.
C8_Fused ==
    [][SourceExhausted =>
        (iter'.polls = iter.polls /\ it_ret'.kind = "none")]_vars
C8_Witness ==
    /\ SourceExhausted
    /\ \E i \in (iter.polls + 1) .. Len(iter.script) : iter.script[i] # None
    /\ Len(collected) >= 1
    /\ it_calls - Len(collected) >= 3
    /\ it_ret.kind = "none"

\* C14: a next() call returning Some(x) has consumed the source up to and
\* including x and no further, every element before x in that call being of
\* the non-requested parity; a call returning None has consumed every
\* remaining element, none of them of the requested parity.
C14_LazyConsumption ==
    [][LET p == iter.polls
           q == iter'.polls
           sc == iter.script
       IN  WellFormed(sc) =>
            /\ it_ret'.kind = "some" =>
                /\ q > p
                /\ sc[q] = Some(it_ret'.val)
                /\ \A i \in (p + 1) .. (q - 1) : ~HasParity(sc[i][1], it_odd)
            /\ it_ret'.kind = "none" =>
                /\ q >= Len(sc)
                /\ \A i \in (p + 1) .. Len(sc) : ~HasParity(sc[i][1], it_odd)]_vars

\* C15: the keep-odd adapter retains x exactly when is_odd(x), the keep-even
\* adapter exactly when is_even(x).
PredicateFor(flag, x) == IF flag = IteratorExt_odd THEN is_odd(x) ELSE is_even(x)
C15_InlineMatchesPredicate ==
    /\ it_ret.kind = "some" => PredicateFor(it_odd, it_ret.val)
    /\ (WellFormed(iter.script) /\ collect_done) =>
        collected = SelectSeq(Items(iter.script), LAMBDA x : PredicateFor(it_odd, x))

\* C17: the outputs of odd() and even() over one source partition it: every
\* element occurrence is in exactly one of them, both keep the source's
\* order, their lengths sum to the source's, and no value is in both.
RECURSIVE Interleaving(_, _, _)
Interleaving(src, a, b) ==
    IF src = <<>> THEN a = <<>> /\ b = <<>>
    ELSE \/ a # <<>> /\ Head(a) = Head(src) /\ Interleaving(Tail(src), Tail(a), b)
         \/ b # <<>> /\ Head(b) = Head(src) /\ Interleaving(Tail(src), a, Tail(b))
OtherFlag == IF it_odd = IteratorExt_odd THEN IteratorExt_even ELSE IteratorExt_odd
OtherOutput == collect(new(iter.script, OtherFlag).iter, OtherFlag)
C17_Partition ==
    (WellFormed(iter.script) /\ collect_done) =>
        /\ Interleaving(Items(iter.script), collected, OtherOutput)
        /\ Len(collected) + Len(OtherOutput) = Len(iter.script)
        /\ \A i \in 1 .. Len(collected), j \in 1 .. Len(OtherOutput) :
            collected[i] # OtherOutput[j]
C17_Witness ==
    /\ WellFormed(iter.script)
    /\ collect_done
    /\ Len(iter.script) >= 3
    /\ Len(collected) >= 1
    /\ Len(OtherOutput) >= 2

\* ---- claims about OddEven ------------------------------------------------
\* C9: is_odd(v) holds exactly when the remainder of v divided by 2 is
\* nonzero, is_even(v) is its negation, and exactly one of the two holds.
C9_Parity ==
    /\ res_is_odd # None => res_is_odd = Some(v % 2 # 0)
    /\ res_is_even # None => res_is_even = Some(v % 2 = 0)
    /\ (res_is_odd # None /\ res_is_even # None) => res_is_odd # res_is_even
C9_Witness ==
    /\ v < 0
    /\ res_is_odd = Some(TRUE)
    /\ res_is_even = Some(FALSE)

====
